---- MODULE Spec2Model ----
(***************************************************************************)
(* Telemetry transformation, quality control and alerting pipeline of the  *)
(* flood early-warning application (src/app).                              *)
(*                                                                         *)
(* Units.  Python floats are modelled as exact fixed-point integers:       *)
(*   lengths (dist_m, H_m, H_eff, dH_10m, sensor height, H0_m)  centimetres*)
(*   discharge (Q_m3s, dQ_10m)                      thousandths of m3/s    *)
(*   coefficient a                                  thousandths            *)
(*   exponent b                                     halves (b = b2 / 2)    *)
(*   probabilities                                  percent                *)
(*   rain rate                                      mm/h                   *)
(*   time.time()                                    seconds                *)
(* An optional value (Python None) is << >>, a present value v is <<v>>.   *)
(***************************************************************************)
EXTENDS Integers, Sequences, FiniteSets, TLC

VARIABLES
    \* ---- alerting (src/app/workers/alerting.py, src/app/storage/db.py)
    now,            \* last reading of time.time()
    rules,          \* the loaded rules.yaml mapping
    last_ts,        \* AlertState.last_ts
    active_levels,  \* AlertState.active_levels: the set of keys mapped to True
    alerts,         \* table alerts: a set of rows
    call,           \* arguments of the evaluate_and_store invocation in progress
    ret,            \* what that invocation did, kept until it returns
    lastEmit,       \* rule -> time of the latest emission of that rule
    submitted,      \* the alert ids handed to insert_alert so far
    \* ---- ingest (src/app/ingest/telemetry_schema.py, src/app/storage/db.py)
    telemetry,      \* table telemetry: a set of rows
    devices,        \* table devices: a set of rows
    hq_profile,     \* table hq_profile: a set of rows
    req,            \* arguments of the process_payload invocation in progress
    rec,            \* what that invocation returned and saw, kept until it returns
    ncalls,         \* payloads processed so far
    inbox,          \* the message an ingest handler is working on, and its fate
    disordered,     \* nodes of which a sample was processed after a later-stamped one
    \* ---- threads (mqtt_client.py, http_server.py, scheduler.py, main_window.py)
    workers,        \* ingest thread -> where it stands in process_payload, and with what
    slot,           \* the timer callback the Qt thread is running, if any
    \* ---- quality control (src/app/qc/rules.py)
    qcIn,           \* arguments of a qc_flags call
    qcOut,          \* its result
    \* ---- H-Q model (src/app/hq/hq_model.py)
    hqIn,           \* arguments of a compute_h_q call
    hqOut,          \* its result
    fitIn,          \* arguments of a fit_hq_params call
    fitOut          \* its result and the fitting methods it tried

alertVars == <<now, rules, last_ts, active_levels, alerts, call, ret, lastEmit, submitted>>

threadVars == <<workers, slot>>

ingestVars == <<telemetry, devices, hq_profile, req, rec, ncalls, inbox, disordered, threadVars>>

hqVars == <<hqIn, hqOut, fitIn, fitOut>>

qcVars == <<qcIn, qcOut, hqVars>>

vars == <<now, rules, last_ts, active_levels, alerts, call, ret, lastEmit, submitted,
          telemetry, devices, hq_profile, req, rec, ncalls, inbox, disordered, workers, slot,
          qcIn, qcOut,
          hqIn, hqOut, fitIn, fitOut>>

\* ------------------------------------------------------------ optionals
None == << >>

Some(v) == <<v>>

Val(o) == o[1]

IsNone(o) == o = None

\* Python's `x or 0.0` on an optional number.
OrZero(o) == IF IsNone(o) \/ Val(o) = 0 THEN 0 ELSE Val(o)

Max(a, b) == IF a >= b THEN a ELSE b

\* ------------------------------------------------------------ bounds
\* How many 30 s clock steps a behaviour may take.
MaxTicks == 5

\* Largest debounce_min a behaviour is configured with.
MaxDebounceMin == 1

\* How many payloads a behaviour processes.
MaxCalls == 3

\* Longest calibration series.
MaxPairs == 6

\* The grid candidates followed: H0 of 0 cm up to MaxGrid cm.
MaxGrid == 2

\* ------------------------------------------------------------ alert rules
DefaultEarlyHorizon == 6

DefaultEarlyProbMin == 60

DefaultDh10Min == 8

DefaultRainMin == 10

DefaultHighHorizon == 12

DefaultHighProbMin == 70

RuleNames == {"early", "high"}

\* rules.yaml as loaded: the keys evaluate_and_store reads, at the values its
\* own defaults give them, with debounce_min chosen per deployment.
RulesFor(dmin) ==
    [debounce_min |-> dmin,
     early |-> [horizon_h |-> DefaultEarlyHorizon, prob_min |-> DefaultEarlyProbMin,
                dh10_min |-> DefaultDh10Min, rain_next_hour_mmph_min |-> DefaultRainMin],
     high  |-> [horizon_h |-> DefaultHighHorizon, prob_min |-> DefaultHighProbMin]]

\* ------------------------------------------------------------ alert store
\* Mutant: the id leaves the rule out.
AlertId_norule(node_id, ts, rule, h) == <<node_id, ts, "alert", h>>

\* alert_id = f"{node_id}:{ts}:{rule}:{horizon_h}"
AlertId(node_id, ts, rule, h) == <<node_id, ts, rule, h>>

AlertRow(alert_id, ts, node_id, level, horizon_h, reason) ==
    [alert_id |-> alert_id, ts |-> ts, node_id |-> node_id, level |-> level,
     horizon_h |-> horizon_h, reason |-> reason, ack_by |-> None, ack_ts |-> None]

\* INSERT OR REPLACE: the conflicting row is deleted and the new one inserted.
insert_alert_replace(tbl, alert_id, ts, node_id, level, horizon_h, reason) ==
    {r \in tbl : r.alert_id # alert_id}
        \cup {AlertRow(alert_id, ts, node_id, level, horizon_h, reason)}

\* Database.insert_alert: INSERT OR IGNORE on PRIMARY KEY alert_id.
insert_alert(tbl, alert_id, ts, node_id, level, horizon_h, reason) ==
    IF \E r \in tbl : r.alert_id = alert_id
    THEN tbl
    ELSE tbl \cup {AlertRow(alert_id, ts, node_id, level, horizon_h, reason)}

\* ------------------------------------------------------------ evaluate_and_store
debounce_s(r) == r.debounce_min * 60

\* Mutant: nothing is debounced, as if every node met an AlertState of its own
\* that no other node's emission had touched.
debounced_never(key, t, lts, act, r) == FALSE

\* Mutant: the rule's own active flag is not consulted.
debounced_any(key, t, lts, act, r) == (t - lts) < debounce_s(r)

\* Mutant: the window is counted in minutes, not seconds.
debounced_minutes(key, t, lts, act, r) == (t - lts) < r.debounce_min /\ key \in act

\* _debounced(key), with the state it closes over made explicit.
debounced(key, t, lts, act, r) == (t - lts) < debounce_s(r) /\ key \in act

\* forecasts.get(h, {}) : the entry of horizon h, None when there is none.
ForecastAt(forecasts, h) == IF h \in DOMAIN forecasts THEN Some(forecasts[h]) ELSE None

\* Mutant: the secondary trigger needs no forecast entry.
early_trigger_noforecast(c, r) ==
    LET f_early == ForecastAt(c.forecasts, r.early.horizon_h)
    IN  \/ (~IsNone(f_early) /\ Val(f_early).prob_flood >= r.early.prob_min)
        \/ (OrZero(c.dH_10m) >= r.early.dh10_min
            /\ OrZero(c.rain_next_hour) >= r.early.rain_next_hour_mmph_min)

\* The condition of the early rule's `if` (alerting.py line 38).
early_trigger(c, r) ==
    LET f_early == ForecastAt(c.forecasts, r.early.horizon_h)
    IN  /\ ~IsNone(f_early)
        /\ \/ Val(f_early).prob_flood >= r.early.prob_min
           \/ (OrZero(c.dH_10m) >= r.early.dh10_min
               /\ OrZero(c.rain_next_hour) >= r.early.rain_next_hour_mmph_min)

\* The condition of the high rule's `if` (alerting.py line 50).
high_trigger(c, r) ==
    LET f_high == ForecastAt(c.forecasts, r.high.horizon_h)
    IN  ~IsNone(f_high) /\ Val(f_high).prob_flood >= r.high.prob_min

\* The caller assembles the arguments of one invocation.
Invoke(node_id, ts, forecasts, dH_10m, rain_next_hour) ==
    /\ IsNone(call)
    /\ call' = Some([node_id |-> node_id, ts |-> ts, forecasts |-> forecasts,
                     dH_10m |-> dH_10m, rain_next_hour |-> rain_next_hour])
    /\ UNCHANGED <<now, rules, last_ts, active_levels, alerts, ret, lastEmit, submitted>>
    /\ UNCHANGED <<ingestVars, qcVars>>

\* The caller invokes again d seconds after the last reading of the clock.
\* Only differences of times are read, so the clock reading is held at `now`
\* and every stored time moves d seconds into the past instead; ages beyond
\* MaxAge, which is more than any debounce window, are not told apart.
MaxAge == 60 * (MaxDebounceMin + 1)

Earlier(t, d) == Max(t - d, now - MaxAge)

invoke_after(d, node_id, ts, forecasts, dH_10m, rain_next_hour) ==
    /\ IsNone(call)
    /\ call' = Some([node_id |-> node_id, ts |-> ts, forecasts |-> forecasts,
                     dH_10m |-> dH_10m, rain_next_hour |-> rain_next_hour])
    /\ last_ts' = Earlier(last_ts, d)
    /\ lastEmit' = [k \in RuleNames |->
                       IF IsNone(lastEmit[k]) THEN None ELSE Some(Earlier(Val(lastEmit[k]), d))]
    /\ UNCHANGED <<now, rules, active_levels, alerts, ret, submitted>>
    /\ UNCHANGED <<ingestVars, qcVars>>

\* Mutant: raising the flag of one rule drops the flag of the other.
emit_one_flag(st, c, key, level, h, reason, t) ==
    [alerts |-> insert_alert(st.alerts, AlertId(c.node_id, c.ts, key, h),
                             c.ts, c.node_id, level, h, reason),
     act |-> {key},
     lts |-> t]

\* Mutant: the clock of the last emission is left alone when the alert id is
\* already stored.
emit_if_new(st, c, key, level, h, reason, t) ==
    [alerts |-> insert_alert(st.alerts, AlertId(c.node_id, c.ts, key, h),
                             c.ts, c.node_id, level, h, reason),
     act |-> st.act \cup {key},
     lts |-> IF \E a \in st.alerts : a.alert_id = AlertId(c.node_id, c.ts, key, h)
             THEN st.lts ELSE t]

\* The body of a rule's `if`: db.insert_alert, state.active_levels[key] = True,
\* state.last_ts = now.  st is the alert table and AlertState before it.
emit(st, c, key, level, h, reason, t) ==
    [alerts |-> insert_alert(st.alerts, AlertId(c.node_id, c.ts, key, h),
                             c.ts, c.node_id, level, h, reason),
     act |-> st.act \cup {key},
     lts |-> t]

\* evaluate_and_store, reading the clock as t: the early rule, then the high
\* rule, each on the AlertState the statements before it left.
evaluate_and_store(t) ==
    /\ ~IsNone(call) /\ IsNone(ret)
    /\ t >= now
    /\ LET c == Val(call)
           st0 == [alerts |-> alerts, act |-> active_levels, lts |-> last_ts]
           emitE == early_trigger(c, rules)
                    /\ ~debounced("early", t, st0.lts, st0.act, rules)
           st1 == IF emitE
                  THEN emit(st0, c, "early", "EARLY", rules.early.horizon_h, "rule:early", t)
                  ELSE st0
           emitH == high_trigger(c, rules) /\ ~debounced("high", t, st1.lts, st1.act, rules)
           st2 == IF emitH
                  THEN emit(st1, c, "high", "HIGH", rules.high.horizon_h, "rule:high", t)
                  ELSE st1
           emitted == (IF emitE THEN {"early"} ELSE {}) \cup (IF emitH THEN {"high"} ELSE {})
       IN  /\ now' = t
           /\ alerts' = st2.alerts
           /\ active_levels' = st2.act
           /\ last_ts' = st2.lts
           /\ lastEmit' = [k \in RuleNames |-> IF k \in emitted THEN Some(t) ELSE lastEmit[k]]
           /\ submitted' = submitted
                 \cup (IF emitE THEN {AlertId(c.node_id, c.ts, "early", rules.early.horizon_h)}
                       ELSE {})
                 \cup (IF emitH THEN {AlertId(c.node_id, c.ts, "high", rules.high.horizon_h)}
                       ELSE {})
           /\ ret' = Some([emitted |-> emitted, at |-> t,
                           last_ts0 |-> last_ts, active0 |-> active_levels,
                           lastEmit0 |-> lastEmit, alerts0 |-> alerts])
    /\ UNCHANGED <<rules, call, ingestVars, qcVars>>

\* A direct call of Database.insert_alert with any row under any id.
insert_alert_call(alert_id, ts, node_id, level, horizon_h, reason) ==
    /\ IsNone(call)
    /\ alerts' = insert_alert(alerts, alert_id, ts, node_id, level, horizon_h, reason)
    /\ submitted' = submitted \cup {alert_id}
    /\ ret' = Some([row |-> AlertRow(alert_id, ts, node_id, level, horizon_h, reason),
                    alerts0 |-> alerts])
    /\ UNCHANGED <<now, rules, last_ts, active_levels, call, lastEmit, ingestVars, qcVars>>

\* The invocation returns to its caller.
Return ==
    /\ ~IsNone(ret)
    /\ call' = None /\ ret' = None
    /\ UNCHANGED <<now, rules, last_ts, active_levels, alerts, lastEmit, submitted>>
    /\ UNCHANGED <<ingestVars, qcVars>>

\* ------------------------------------------------------------ timestamps
\* A timestamp string is its 19-character date-time prefix, counted as wall
\* minutes after 2025-11-03T09:00:00, and what follows it: a UTC offset, with
\* or without a fraction.  A string that is no ISO-8601 text has suffix "?"
\* (it reads DD/MM/YYYY..., so it sorts before every ISO string of the year).
Ts(wall, suffix) == [wall |-> wall, suffix |-> suffix]

IsoSuffixes == {"+00:00", "+07:00", ".000+07:00"}

\* datetime.fromisoformat accepts the string.
Parses(ts) == ts.suffix \in IsoSuffixes

\* Minutes east of UTC that the suffix states.
OffsetMin(suffix) == IF suffix = "+00:00" THEN 0 ELSE 420

\* The instant a parsable string denotes, in minutes UTC.
Instant(ts) == ts.wall - OffsetMin(ts.suffix)

\* Rank of a suffix in the byte order of strings: "+" < "." and "0" < "7".
SuffixRank(suffix) ==
    CASE suffix = "+00:00"     -> 1
      [] suffix = "+07:00"     -> 2
      [] suffix = ".000+07:00" -> 3
      [] OTHER                 -> 0

\* a <= b as SQLite compares TEXT: byte by byte.
StrLE(a, b) ==
    IF a.suffix = "?" \/ b.suffix = "?"
    THEN IF a.suffix = "?" /\ b.suffix = "?" THEN a.wall <= b.wall ELSE a.suffix = "?"
    ELSE \/ a.wall < b.wall
         \/ (a.wall = b.wall /\ SuffixRank(a.suffix) <= SuffixRank(b.suffix))

\* datetime.isoformat() of a parsed value: a zero fraction is not printed.
IsoFormat(wall, suffix) == Ts(wall, IF suffix = ".000+07:00" THEN "+07:00" ELSE suffix)

\* (fromisoformat(ts_iso) - timedelta(minutes=10)).isoformat()
TsAgo(ts) == IsoFormat(ts.wall - 10, ts.suffix)

\* ------------------------------------------------------------ H-Q model
RECURSIVE IntPow(_, _)
IntPow(x, n) == IF n = 0 THEN 1 ELSE x * IntPow(x, n - 1)

RECURSIVE IsqrtIn(_, _, _)
IsqrtIn(n, lo, hi) ==
    IF lo >= hi THEN lo
    ELSE LET mid == (lo + hi + 1) \div 2
         IN  IF mid * mid <= n THEN IsqrtIn(n, mid, hi) ELSE IsqrtIn(n, lo, mid - 1)

Isqrt(n) == IsqrtIn(n, 0, 46340)

\* (H_cm / 100) ** (b2 / 2), in thousandths, rounded down.
PowMilli(H_cm, b2) ==
    Isqrt(IF b2 >= 3 THEN IntPow(H_cm, b2) \div IntPow(10, 2 * b2 - 6)
                     ELSE IntPow(H_cm, b2) * IntPow(10, 6 - 2 * b2))

\* Mutant: the guard written as `if not H_eff: return None`.
compute_h_q_falsy(H_eff, a, b) ==
    IF IsNone(H_eff) \/ Val(H_eff) = 0 THEN None
    ELSE IF Val(H_eff) < 0 THEN Some(0)
    ELSE Some((a * PowMilli(Val(H_eff), b)) \div 1000)

\* compute_h_q: None for None, 0.0 for H_eff <= 0, else a * H_eff ** b.
compute_h_q(H_eff, a, b) ==
    IF IsNone(H_eff) THEN None
    ELSE IF Val(H_eff) <= 0 THEN Some(0)
    ELSE Some((a * PowMilli(Val(H_eff), b)) \div 1000)

\* A float of the calibration data: finite with a value, or NaN / +infinity.
Fin(v) == [finite |-> TRUE, v |-> v]

NaN == [finite |-> FALSE, v |-> 0]

PosInf == [finite |-> FALSE, v |-> 1]

FitResult(a, b, H0_m, r2, rmse) == [a |-> a, b |-> b, H0_m |-> H0_m, r2 |-> r2, rmse |-> rmse]

\* FitResult(a=1.0, b=1.5, H0_m=0.0, r2=0.0, rmse=float("inf"))
SentinelFit == FitResult(1000, 3, 0, 0, PosInf)

\* Mutant: the mask without its (Q > 0) term.
usable_finite_only(H, Q) == {i \in DOMAIN H : H[i].finite /\ Q[i].finite}

\* mask = np.isfinite(H) & np.isfinite(Q) & (Q > 0): the indices that are kept.
usable(H, Q) == {i \in DOMAIN H : H[i].finite /\ Q[i].finite /\ Q[i].v > 0}

\* The candidates of H0_grid = np.arange(0.0, 0.1001, 0.001) that fall on whole
\* centimetres, from 0 cm up to MaxGrid cm, in ascending order.
H0_grid == 0..MaxGrid

\* m = He > 0: the kept pairs whose head exceeds the candidate H0.
above(H, Q, H0) == {i \in usable(H, Q) : Max(0, H[i].v - H0) > 0}

\* The candidate gets as far as its r2: it has 5 points and Sxx > 0, i.e. its
\* points do not all have the same head.
regressed(H, Q, H0) ==
    /\ ~(Cardinality(above(H, Q, H0)) < 5)
    /\ \E i \in above(H, Q, H0), j \in above(H, Q, H0) : H[i].v # H[j].v

\* The FitResult of a candidate: r2 is what _r2_rmse returns for it (in
\* percent); the coefficients and rmse of the regression are not followed.
GridFit(H0, r2) == FitResult(3000, 4, H0, r2, Fin(5))

\* The loop over H0_grid from candidate H0 on, best being the result so far.
RECURSIVE grid_from(_, _, _, _, _)
grid_from(H, Q, r2s, H0, best) ==
    IF H0 > MaxGrid THEN best
    ELSE grid_from(H, Q, r2s, H0 + 1,
                   IF regressed(H, Q, H0) /\ r2s[H0] > best.r2
                   THEN GridFit(H0, r2s[H0])
                   ELSE best)

\* The fallback: best starts as the sentinel, whose r2 is 0.0, and is
\* replaced by a candidate of strictly greater r2.
grid_search(H, Q, r2s) == grid_from(H, Q, r2s, 0, SentinelFit)

\* fit_hq_params: the sentinel below 5 kept pairs; else curve_fit, and the
\* grid search when curve_fit is missing or raises.  curve is what curve_fit
\* returns (None when it raises), r2s the r2 of each grid candidate: the
\* outcomes of the numerical methods.
fit_hq_params(H_m, Q_m3s, curve, r2s) ==
    IF Cardinality(usable(H_m, Q_m3s)) < 5
    THEN [fit |-> SentinelFit, tried |-> {}]
    ELSE IF ~IsNone(curve)
    THEN [fit |-> Val(curve), tried |-> {"curve_fit"}]
    ELSE [fit |-> grid_search(H_m, Q_m3s, r2s), tried |-> {"curve_fit", "grid"}]

\* HQParams(): a = 1.0, b = 1.5, H0_m = 0.0, sensor_height_above_crest_m = 1.0
DefaultA == 1000

DefaultB2 == 3

DefaultH0 == 0

DefaultSensorHeight == 100

HQParams(a, b, H0_m, sensor_h) ==
    [a |-> a, b |-> b, H0_m |-> H0_m, sensor_height_above_crest_m |-> sensor_h]

\* Database.get_hq: the node's row, or the defaults when it has none.
get_hq(tbl, node_id) ==
    IF \E r \in tbl : r.node_id = node_id
    THEN LET r == CHOOSE x \in tbl : x.node_id = node_id
         IN  HQParams(r.a, r.b, r.H0_m, r.sensor_height_above_crest_m)
    ELSE HQParams(DefaultA, DefaultB2, DefaultH0, DefaultSensorHeight)

\* Database.upsert_hq: INSERT ... ON CONFLICT(node_id) DO UPDATE of every column.
upsert_hq(tbl, node_id, p) ==
    {r \in tbl : r.node_id # node_id}
        \cup {[node_id |-> node_id, a |-> p.a, b |-> p.b, H0_m |-> p.H0_m,
               sensor_height_above_crest_m |-> p.sensor_height_above_crest_m]}

\* ------------------------------------------------------------ quality control
DistMin == 5

DistMax == 500

NegHLimit == 2

SpikeLimit == 15

DefaultQMax == 1000000

Abs(x) == IF x < 0 THEN 0 - x ELSE x

\* Mutant: the spike test is strict.
qc_flags_strict_spike(dist_m, H_m, dH_10m, Q_m3s, q_max) ==
    (IF ~IsNone(dist_m) /\ ~(DistMin <= Val(dist_m) /\ Val(dist_m) <= DistMax)
     THEN <<"OUT_OF_RANGE_DIST">> ELSE << >>)
    \o (IF ~IsNone(H_m) /\ Val(H_m) < 0 - NegHLimit THEN <<"NEG_H">> ELSE << >>)
    \o (IF ~IsNone(dH_10m) /\ Abs(Val(dH_10m)) > SpikeLimit THEN <<"SPIKES_H">> ELSE << >>)
    \o (IF ~IsNone(Q_m3s) /\ (Val(Q_m3s) < 0 \/ Val(Q_m3s) > q_max)
        THEN <<"OUT_OF_RANGE_Q">> ELSE << >>)

\* qc_flags: the flags in the order the function appends them ("|".join).
qc_flags(dist_m, H_m, dH_10m, Q_m3s, q_max) ==
    (IF ~IsNone(dist_m) /\ ~(DistMin <= Val(dist_m) /\ Val(dist_m) <= DistMax)
     THEN <<"OUT_OF_RANGE_DIST">> ELSE << >>)
    \o (IF ~IsNone(H_m) /\ Val(H_m) < 0 - NegHLimit THEN <<"NEG_H">> ELSE << >>)
    \o (IF ~IsNone(dH_10m) /\ Abs(Val(dH_10m)) >= SpikeLimit THEN <<"SPIKES_H">> ELSE << >>)
    \o (IF ~IsNone(Q_m3s) /\ (Val(Q_m3s) < 0 \/ Val(Q_m3s) > q_max)
        THEN <<"OUT_OF_RANGE_Q">> ELSE << >>)

\* ------------------------------------------------------------ telemetry store
TelemetryRow(r) ==
    [node_id |-> r.node_id, ts |-> r.ts, dist_m |-> r.dist_m, H_m |-> r.H_m,
     H_eff |-> r.H_eff, Q_m3s |-> r.Q_m3s, dH_10m |-> r.dH_10m, dQ_10m |-> r.dQ_10m,
     rain_bin |-> r.rain_bin, batt_v |-> r.batt_v, flags |-> r.flags]

\* Mutant: INSERT OR IGNORE, the stored row wins.
telemetry_ignore(tbl, r) ==
    IF \E x \in tbl : x.node_id = r.node_id /\ x.ts = r.ts THEN tbl
    ELSE tbl \cup {TelemetryRow(r)}

\* INSERT OR REPLACE INTO telemetry, PRIMARY KEY(node_id, ts).
telemetry_replace(tbl, r) ==
    {x \in tbl : ~(x.node_id = r.node_id /\ x.ts = r.ts)} \cup {TelemetryRow(r)}

\* Mutant: the devices row follows the sample with the greatest timestamp.
devices_upsert_newest(tbl, r) ==
    LET old == {x \in tbl : x.node_id = r.node_id}
    IN  IF \E o \in old : StrLE(r.ts, o.last_seen) /\ o.last_seen # r.ts THEN tbl
        ELSE (tbl \ old)
                \cup {[node_id |-> r.node_id, last_seen |-> r.ts, rssi |-> None,
                       batt_v |-> r.batt_v, fw_ver |-> None, status |-> "online"]}

\* INSERT INTO devices ... ON CONFLICT(node_id) DO UPDATE SET last_seen, batt_v,
\* status: rssi and fw_ver keep what the row had (NULL on insert).
devices_upsert(tbl, r) ==
    LET old == {x \in tbl : x.node_id = r.node_id}
        keep == IF old = {} THEN [rssi |-> None, fw_ver |-> None]
                ELSE LET o == CHOOSE x \in old : TRUE
                     IN  [rssi |-> o.rssi, fw_ver |-> o.fw_ver]
    IN  (tbl \ old)
            \cup {[node_id |-> r.node_id, last_seen |-> r.ts, rssi |-> keep.rssi,
                   batt_v |-> r.batt_v, fw_ver |-> keep.fw_ver, status |-> "online"]}

\* Mutant: the comparison is strict.
RowsBefore(tbl, node_id, ts_ago) ==
    {x \in tbl : x.node_id = node_id /\ StrLE(x.ts, ts_ago) /\ x.ts # ts_ago}

\* The rows SELECT ... WHERE node_id=? AND ts<=? sees.
RowsAtOrBefore(tbl, node_id, ts_ago) ==
    {x \in tbl : x.node_id = node_id /\ StrLE(x.ts, ts_ago)}

\* Mutant: the lookup passes over rows without H_m.
value_10m_ago_with_head(tbl, node_id, ts_iso) ==
    IF ~Parses(ts_iso) THEN None
    ELSE LET rows == {x \in RowsAtOrBefore(tbl, node_id, TsAgo(ts_iso)) : ~IsNone(x.H_m)}
         IN  IF rows = {} THEN None
             ELSE LET row == CHOOSE x \in rows : \A y \in rows : StrLE(y.ts, x.ts)
                  IN  Some([H_m |-> row.H_m, Q_m3s |-> row.Q_m3s])

\* Database.value_10m_ago: ORDER BY ts DESC LIMIT 1 of those rows; None for no
\* row and for a ts_iso that fromisoformat rejects.
value_10m_ago(tbl, node_id, ts_iso) ==
    IF ~Parses(ts_iso) THEN None
    ELSE LET rows == RowsAtOrBefore(tbl, node_id, TsAgo(ts_iso))
         IN  IF rows = {} THEN None
             ELSE LET row == CHOOSE x \in rows : \A y \in rows : StrLE(y.ts, x.ts)
                  IN  Some([H_m |-> row.H_m, Q_m3s |-> row.Q_m3s])

\* ------------------------------------------------------------ process_payload
\* meta carrying "sensor_height_above_crest_m": null.  (meta without the key is
\* None, meta with a height h is Some(h).)
MetaNull == <<0, 0>>

\* Mutant: the sample's meta is not consulted.
sensor_height_stored(meta, hq) == hq.sensor_height_above_crest_m

\* meta.get("sensor_height_above_crest_m", hq.sensor_height_above_crest_m)
sensor_height(meta, hq) ==
    IF IsNone(meta) THEN hq.sensor_height_above_crest_m ELSE Val(meta)

\* Mutant: a missing dist_m is read as 0.0.
head_dist_or_zero(sensor_h, dist_m) == Some(sensor_h - OrZero(dist_m))

\* H_m = sensor_h - dist_m under `if dist_m is not None`, else None.
head(sensor_h, dist_m) == IF IsNone(dist_m) THEN None ELSE Some(sensor_h - Val(dist_m))

\* H_eff = max(0.0, H_m - hq.H0_m), in the same branch.
effective_head(H_m, H0_m) == IF IsNone(H_m) THEN None ELSE Some(Max(0, Val(H_m) - H0_m))

\* Mutant: a delta without a reference defaults to 0.0.
delta_default_zero(cur, prev, field) ==
    IF IsNone(cur) THEN None
    ELSE IF IsNone(prev) \/ IsNone(Val(prev)[field]) THEN Some(0)
    ELSE Some(Val(cur) - Val(Val(prev)[field]))

\* cur - float(prev[field]) when prev is found and both sides are not None.
delta(cur, prev, field) ==
    IF ~IsNone(prev) /\ ~IsNone(cur) /\ ~IsNone(Val(prev)[field])
    THEN Some(Val(cur) - Val(Val(prev)[field]))
    ELSE None

\* The derived record of one sample, from the profile hq and the lookup's answer prev.
derive(node_id, ts_iso, dist_m, rain_bin, batt_v, meta, hq, prev) ==
    LET sensor_h == sensor_height(meta, hq)
        H_m == head(sensor_h, dist_m)
        H_eff == effective_head(H_m, hq.H0_m)
        Q_m3s == compute_h_q(H_eff, hq.a, hq.b)
        dH_10m == delta(H_m, prev, "H_m")
        dQ_10m == delta(Q_m3s, prev, "Q_m3s")
    IN  [node_id |-> node_id, ts |-> ts_iso, dist_m |-> dist_m, H_m |-> H_m,
         H_eff |-> H_eff, Q_m3s |-> Q_m3s, dH_10m |-> dH_10m, dQ_10m |-> dQ_10m,
         rain_bin |-> rain_bin, batt_v |-> batt_v,
         flags |-> qc_flags(dist_m, H_m, dH_10m, Q_m3s, DefaultQMax)]

\* A JSON value of a payload field: absent or null, a number, or a text that
\* float() and int() refuse.
Absent == [k |-> "absent", v |-> 0]

Num(v) == [k |-> "num", v |-> v]

Text == [k |-> "text", v |-> 0]

\* float(x) / int(x) if x is not None else None
coerce(x) == IF x.k = "num" THEN Some(x.v) ELSE None

\* Mutant: a value that cannot be coerced is taken as missing.
validate_payload_lenient(data) ==
    IF ~data.object \/ IsNone(data.node_id) \/ IsNone(data.ts) THEN None
    ELSE Some([node_id |-> Val(data.node_id), ts |-> Val(data.ts),
               dist_m |-> coerce(data.dist_m), rain_bin |-> coerce(data.rain_bin),
               batt_v |-> coerce(data.batt_v), meta |-> data.meta])

\* validate_payload: None when it raises (not an object, node_id or ts missing,
\* float() or int() of a sensor value raising), else the tuple it returns.
validate_payload(data) ==
    IF ~data.object THEN None
    ELSE IF IsNone(data.node_id) \/ IsNone(data.ts) THEN None
    ELSE IF "text" \in {data.dist_m.k, data.rain_bin.k, data.batt_v.k} THEN None
    ELSE Some([node_id |-> Val(data.node_id), ts |-> Val(data.ts),
               dist_m |-> coerce(data.dist_m), rain_bin |-> coerce(data.rain_bin),
               batt_v |-> coerce(data.batt_v), meta |-> data.meta])

\* A decoded JSON message arrives on one of the two ingest paths.
deliver(path, data) ==
    /\ IsNone(inbox) /\ IsNone(req)
    /\ ncalls < MaxCalls
    /\ inbox' = Some([path |-> path, data |-> data, status |-> "new"])
    /\ UNCHANGED <<telemetry, devices, hq_profile, req, rec, ncalls, disordered, threadVars, alertVars, qcVars>>

\* The body shared by the two handlers: validate_payload, then process_payload
\* on what it returned; any exception is caught and logged.
handle(path) ==
    /\ ~IsNone(inbox) /\ Val(inbox).path = path /\ Val(inbox).status = "new"
    /\ LET v == validate_payload(Val(inbox).data)
       IN  IF IsNone(v)
           THEN /\ inbox' = Some([Val(inbox) EXCEPT !.status = "rejected"])
                /\ req' = req
           ELSE /\ inbox' = Some([Val(inbox) EXCEPT !.status = "accepted"])
                /\ req' = v
    /\ UNCHANGED <<telemetry, devices, hq_profile, rec, ncalls, disordered, threadVars, alertVars, qcVars>>

\* HTTPIngestServer: POST /ingest.
ingest == handle("http")

\* MQTTIngestClient._on_message.
on_message == handle("mqtt")

\* The handler's except branch has logged (and, over HTTP, answered ok: False).
Reply ==
    /\ ~IsNone(inbox) /\ Val(inbox).status = "rejected"
    /\ inbox' = None
    /\ UNCHANGED <<telemetry, devices, hq_profile, req, rec, ncalls, disordered, threadVars, alertVars, qcVars>>

\* A validated sample reaches the processor.
Receive(node_id, ts_iso, dist_m, rain_bin, batt_v, meta) ==
    /\ IsNone(req)
    /\ ncalls < MaxCalls
    /\ req' = Some([node_id |-> node_id, ts |-> ts_iso, dist_m |-> dist_m,
                    rain_bin |-> rain_bin, batt_v |-> batt_v, meta |-> meta])
    /\ UNCHANGED <<telemetry, devices, hq_profile, rec, ncalls, inbox, disordered, threadVars, alertVars, qcVars>>

\* The statements of process_payload that an exception leaves through: the
\* profile read and the lookup stand outside every try, and float() of a
\* null sensor height raises TypeError.  Only the upsert is guarded.
raises(meta, fault) == fault \in {"get_hq", "value_10m_ago"} \/ meta = MetaNull

\* process_payload: profile read, derivation, lookup, flags, upsert_telemetry
\* (telemetry row and devices row in one commit), return of the record.
\* fault names the store call that fails with an sqlite3 error, if any.
process_payload(fault) ==
    /\ ~IsNone(req) /\ IsNone(rec)
    /\ LET q == Val(req)
           hq == get_hq(hq_profile, q.node_id)
           prev == value_10m_ago(telemetry, q.node_id, q.ts)
           r == derive(q.node_id, q.ts, q.dist_m, q.rain_bin, q.batt_v, q.meta, hq, prev)
           raised == raises(q.meta, fault)
           stored == ~raised /\ fault # "upsert_telemetry"
       IN  /\ telemetry' = IF stored THEN telemetry_replace(telemetry, r) ELSE telemetry
           /\ devices' = IF stored THEN devices_upsert(devices, r) ELSE devices
           /\ rec' = Some([rec |-> IF raised THEN None ELSE r, prev |-> prev, hq |-> hq,
                           telemetry0 |-> telemetry, raised |-> raised, fault |-> fault,
                           upserts |-> IF raised THEN 0 ELSE 1])
    /\ ncalls' = ncalls + 1
    /\ disordered' =
          IF \E x \in telemetry :
                 x.node_id = Val(req).node_id /\ Instant(x.ts) > Instant(Val(req).ts)
          THEN disordered \cup {Val(req).node_id}
          ELSE disordered
    /\ UNCHANGED <<hq_profile, req, inbox, threadVars, alertVars, qcVars>>

\* process_payload has returned to the ingest handler, which answers or returns.
Done ==
    /\ ~IsNone(rec)
    /\ req' = None /\ rec' = None /\ inbox' = None
    /\ UNCHANGED <<telemetry, devices, hq_profile, ncalls, disordered, threadVars, alertVars, qcVars>>

\* Mutant: the fit is written to every node's profile.
apply_fit_every_node(fit) ==
    /\ IsNone(req)
    /\ hq_profile # {[node_id |-> n, a |-> fit.a, b |-> fit.b, H0_m |-> fit.H0_m,
                      sensor_height_above_crest_m |->
                          get_hq(hq_profile, n).sensor_height_above_crest_m] :
                         n \in {"CM-01", "CM-02"}}
    /\ hq_profile' = {[node_id |-> n, a |-> fit.a, b |-> fit.b, H0_m |-> fit.H0_m,
                       sensor_height_above_crest_m |->
                           get_hq(hq_profile, n).sensor_height_above_crest_m] :
                          n \in {"CM-01", "CM-02"}}
    /\ UNCHANGED <<telemetry, devices, req, rec, ncalls, inbox, disordered, threadVars, alertVars, qcVars>>

\* MainWindow._open_calib.apply_fit: the fit's a, b, H0_m onto node CM-01,
\* keeping the sensor height the node's profile reads as.
apply_fit(fit) ==
    /\ IsNone(req)
    /\ LET node_id == "CM-01"
           p == HQParams(fit.a, fit.b, fit.H0_m,
                         get_hq(hq_profile, node_id).sensor_height_above_crest_m)
       IN  /\ upsert_hq(hq_profile, node_id, p) # hq_profile
           /\ hq_profile' = upsert_hq(hq_profile, node_id, p)
    /\ UNCHANGED <<telemetry, devices, req, rec, ncalls, inbox, disordered, threadVars, alertVars, qcVars>>

\* HQCalibrationDialog._on_import: a CSV's H and Q columns go to fit_hq_params.
on_import(H_m, Q_m3s) ==
    /\ IsNone(fitIn)
    /\ fitIn' = Some([H_m |-> H_m, Q_m3s |-> Q_m3s])
    /\ UNCHANGED <<fitOut, hqIn, hqOut, qcIn, qcOut, alertVars, ingestVars>>

\* HQCalibrationDialog._on_apply: the dialog's fit goes to apply_fit.
on_apply ==
    /\ ~IsNone(fitOut)
    /\ apply_fit(Val(fitOut).fit)

\* The dialog is closed.
dialog_close ==
    /\ ~IsNone(fitOut)
    /\ fitIn' = None /\ fitOut' = None
    /\ UNCHANGED <<hqIn, hqOut, qcIn, qcOut, alertVars, ingestVars>>

\* One call of qc_flags on the arguments at hand.
qc_call ==
    /\ ~IsNone(qcIn) /\ IsNone(qcOut)
    /\ LET a == Val(qcIn)
       IN  qcOut' = Some(qc_flags(a.dist_m, a.H_m, a.dH_10m, a.Q_m3s, a.q_max))
    /\ UNCHANGED <<qcIn, hqVars, alertVars, ingestVars>>

\* One call of compute_h_q on the arguments at hand.
hq_call ==
    /\ ~IsNone(hqIn) /\ IsNone(hqOut)
    /\ LET x == Val(hqIn)
       IN  hqOut' = Some(compute_h_q(x.H_eff, x.a, x.b))
    /\ UNCHANGED <<hqIn, fitIn, fitOut, qcIn, qcOut, alertVars, ingestVars>>

\* One call of fit_hq_params on the sequences at hand.
fit_call(curve, r2s) ==
    /\ ~IsNone(fitIn) /\ IsNone(fitOut)
    /\ LET x == Val(fitIn)
           out == fit_hq_params(x.H_m, x.Q_m3s, curve, r2s)
       IN  fitOut' = Some([fit |-> out.fit, tried |-> out.tried, r2s |-> r2s])
    /\ UNCHANGED <<fitIn, hqIn, hqOut, qcIn, qcOut, alertVars, ingestVars>>

\* ------------------------------------------------------------ threads
\* The two threads that call process_payload: paho's network loop, which runs
\* _on_message, and uvicorn's event loop, which runs the /ingest coroutine.
\* Each handles one message at a time; nothing orders one against the other.
IngestThreads == {"MQTTIngest", "HTTPIngest"}

IdleWorker == [pc |-> "idle", q |-> None, hq |-> None, prev |-> None]

\* A thread enters process_payload with the tuple validate_payload returned.
w_enter(th, node_id, ts_iso, dist_m, rain_bin, batt_v, meta) ==
    /\ workers[th].pc = "idle"
    /\ ncalls < MaxCalls
    /\ workers' = [workers EXCEPT ![th] =
                      [pc |-> "entered", hq |-> None, prev |-> None,
                       q |-> Some([node_id |-> node_id, ts |-> ts_iso, dist_m |-> dist_m,
                                   rain_bin |-> rain_bin, batt_v |-> batt_v, meta |-> meta])]]
    /\ UNCHANGED <<telemetry, devices, hq_profile, req, rec, ncalls, inbox, disordered, slot,
                   alertVars, qcVars>>

\* The thread's reads of the store: db.get_hq, then db.value_10m_ago.
w_lookup(th) ==
    /\ workers[th].pc = "entered"
    /\ LET q == Val(workers[th].q)
       IN  workers' = [workers EXCEPT ![th] =
                          [pc |-> "looked_up", q |-> Some(q),
                           hq |-> Some(get_hq(hq_profile, q.node_id)),
                           prev |-> Some(value_10m_ago(telemetry, q.node_id, q.ts))]]
    /\ UNCHANGED <<telemetry, devices, hq_profile, req, rec, ncalls, inbox, disordered, slot,
                   alertVars, qcVars>>

\* The thread's write: db.upsert_telemetry of the record derived from what it
\* read, and the return to the handler.
w_upsert(th) ==
    /\ workers[th].pc = "looked_up"
    /\ LET q == Val(workers[th].q)
           r == derive(q.node_id, q.ts, q.dist_m, q.rain_bin, q.batt_v, q.meta,
                       Val(workers[th].hq), Val(workers[th].prev))
       IN  /\ telemetry' = telemetry_replace(telemetry, r)
           /\ devices' = devices_upsert(devices, r)
           /\ disordered' =
                 IF \E x \in telemetry : x.node_id = q.node_id /\ Instant(x.ts) > Instant(q.ts)
                 THEN disordered \cup {q.node_id}
                 ELSE disordered
    /\ workers' = [workers EXCEPT ![th] = IdleWorker]
    /\ ncalls' = ncalls + 1
    /\ UNCHANGED <<hq_profile, req, rec, inbox, slot, alertVars, qcVars>>

\* ---- the Qt thread (scheduler.py, main_window.py)
\* The four QTimers of Scheduler; each timeout is delivered by the event loop
\* of the thread that created the timers, as a call of the connected callback.
Timers == {"ui", "model", "api", "maint"}

\* Mutant: the event loop delivers a timeout while a callback is still running.
loop_reentrant(s) == TRUE

\* The event loop takes its next event when the callback it called has
\* returned; none of the callbacks runs a nested loop.
loop_ready(s) == IsNone(s)

\* A timer times out and the event loop calls its callback.
timeout(name) ==
    /\ loop_ready(slot)
    /\ slot' = Some(name)
    /\ UNCHANGED <<telemetry, devices, hq_profile, req, rec, ncalls, inbox, disordered, workers,
                   alertVars, qcVars>>

\* _ui_tick, _api_tick and _maintenance_tick: they read the store and return.
tick_return ==
    /\ ~IsNone(slot) /\ Val(slot) # "model"
    /\ slot' = None
    /\ UNCHANGED <<telemetry, devices, hq_profile, req, rec, ncalls, inbox, disordered, workers,
                   alertVars, qcVars>>

Horizons == {3, 6, 9, 12, 24, 48, 72}

\* ModelService.predict: one probability, the same at every horizon; which
\* one depends on the loaded classifier and is left open.
predict(prob) == [h \in Horizons |-> [prob_flood |-> prob]]

\* rows[-1] of latest_telemetry: the node's row of the greatest ts, None when
\* the node has no row.
latest_row(tbl, node_id) ==
    LET rows == {x \in tbl : x.node_id = node_id}
    IN  IF rows = {} THEN None
        ELSE Some(CHOOSE x \in rows : \A y \in rows : StrLE(y.ts, x.ts))

\* _model_tick up to the call of evaluate_and_store: it returns at once when
\* CM-01 has no telemetry.
model_tick(prob) ==
    /\ slot = Some("model") /\ IsNone(call)
    /\ LET r == latest_row(telemetry, "CM-01")
       IN  IF IsNone(r)
           THEN slot' = None /\ UNCHANGED call
           ELSE /\ call' = Some([node_id |-> "CM-01", ts |-> Val(r).ts,
                                 forecasts |-> predict(prob), dH_10m |-> Val(r).dH_10m,
                                 rain_next_hour |-> Some(0)])
                /\ UNCHANGED slot
    /\ UNCHANGED <<now, rules, last_ts, active_levels, alerts, ret, lastEmit, submitted>>
    /\ UNCHANGED <<telemetry, devices, hq_profile, req, rec, ncalls, inbox, disordered, workers,
                   qcVars>>

\* evaluate_and_store returns, and with it _model_tick.
model_tick_return ==
    /\ slot = Some("model") /\ ~IsNone(ret)
    /\ call' = None /\ ret' = None /\ slot' = None
    /\ UNCHANGED <<now, rules, last_ts, active_levels, alerts, lastEmit, submitted>>
    /\ UNCHANGED <<telemetry, devices, hq_profile, req, rec, ncalls, inbox, disordered, workers,
                   qcVars>>

\* ------------------------------------------------------------ idle parts
AlertIdle ==
    /\ now = 30
    /\ rules = RulesFor(1)
    /\ last_ts = 0
    /\ active_levels = {}
    /\ alerts = {}
    /\ call = None
    /\ ret = None
    /\ lastEmit = [k \in RuleNames |-> None]
    /\ submitted = {}

IngestIdle ==
    /\ telemetry = {}
    /\ devices = {}
    /\ hq_profile = {}
    /\ req = None
    /\ rec = None
    /\ ncalls = 0
    /\ inbox = None
    /\ disordered = {}
    /\ workers = [th \in IngestThreads |-> IdleWorker]
    /\ slot = None

HqIdle == hqIn = None /\ hqOut = None /\ fitIn = None /\ fitOut = None

QcIdle == qcIn = None /\ qcOut = None /\ HqIdle

\* ------------------------------------------------------------ inputs
Nodes == {"CM-01", "CM-02"}

AlertTs == {"2025-11-03T09:15:00+07:00"}

\* prob_flood values offered at a horizon: one below and one at the threshold
\* of the rule that reads that horizon.
ProbValues(h) == IF h = DefaultEarlyHorizon THEN {50, 60} ELSE {60, 70}

\* forecasts: a map from some of the horizons to an entry carrying prob_flood.
Forecasts ==
    {f \in UNION {[hs -> [prob_flood : {50, 60, 70}]] :
                      hs \in SUBSET {DefaultEarlyHorizon, DefaultHighHorizon}} :
        \A h \in DOMAIN f : f[h].prob_flood \in ProbValues(h)}

DhValues == {None, Some(7), Some(8)}

RainValues == {None, Some(10)}

ClockReadings == {30 * k : k \in 1..MaxTicks}

InitAlert ==
    /\ now = 30
    /\ rules \in {RulesFor(d) : d \in 0..MaxDebounceMin}
    /\ last_ts = 0
    /\ active_levels = {}
    /\ alerts = {}
    /\ call = None
    /\ ret = None
    /\ lastEmit = [k \in RuleNames |-> None]
    /\ submitted = {}
    /\ IngestIdle
    /\ QcIdle

NextAlert ==
    \/ \E n \in Nodes, ts \in AlertTs, f \in Forecasts, dh \in DhValues, rn \in RainValues :
          Invoke(n, ts, f, dh, rn)
    \/ \E t \in ClockReadings : evaluate_and_store(t)
    \/ Return

SpecAlert == InitAlert /\ [][NextAlert]_vars

\* ---- invocations that go on for ever: the model timer keeps calling
\* _model_tick, each time some seconds after the last, with forecasts in which
\* the high trigger holds; the early trigger holds or not.
Delays == {30, 60}

HighForecasts == {f \in Forecasts : high_trigger([forecasts |-> f], RulesFor(1))}

NextForever ==
    \/ \E d \in Delays, n \in Nodes, ts \in AlertTs, f \in HighForecasts :
          invoke_after(d, n, ts, f, None, Some(0))
    \/ evaluate_and_store(now)
    \/ Return

\* The timer fires as long as the application runs, and an invocation under
\* way runs to its end.
SpecForever == InitAlert /\ [][NextForever]_vars /\ WF_vars(NextForever)

\* ---- ingest inputs
\* Samples every five minutes from 09:00, all stamped +07:00 as the nodes do.
IngestTs == {Ts(w, "+07:00") : w \in {0, 5, 10}}

\* (dist_m, rain_bin, batt_v, meta's sensor height) of a sample.
Sample(dist_m, rain_bin, batt_v, meta) ==
    [dist_m |-> dist_m, rain_bin |-> rain_bin, batt_v |-> batt_v, meta |-> meta]

Samples ==
    {Sample(None, None, None, None),
     Sample(Some(83), Some(1), Some(492), Some(95)),
     Sample(Some(60), None, Some(492), None),
     Sample(Some(100), Some(1), None, Some(95))}

\* A calibration fit the operator may apply: a = 3.0, b = 2.0, H0 = 0.02.
Fits == {[a |-> 3000, b |-> 4, H0_m |-> 2]}

InitIngest == AlertIdle /\ IngestIdle /\ QcIdle

NextIngest ==
    \/ \E n \in Nodes, ts \in IngestTs, s \in Samples :
          Receive(n, ts, s.dist_m, s.rain_bin, s.batt_v, s.meta)
    \/ process_payload("none")
    \/ Done
    \/ \E fit \in Fits : apply_fit(fit)

SpecIngest == InitIngest /\ [][NextIngest]_vars

\* ---- lookup inputs: stamps of both offsets and of millisecond precision, and
\* one string that is no ISO-8601 text; validate_payload passes them all.
LookupTs ==
    {Ts(0, "+07:00"), Ts(10, "+07:00"), Ts(0, "+00:00"), Ts(0, ".000+07:00"),
     Ts(10, ".000+07:00"), Ts(10, "?")}

LookupSamples ==
    {Sample(Some(83), Some(1), Some(492), None), Sample(Some(60), None, Some(492), None)}

NextLookup ==
    \/ \E n \in Nodes, ts \in LookupTs, s \in LookupSamples :
          Receive(n, ts, s.dist_m, s.rain_bin, s.batt_v, s.meta)
    \/ process_payload("none")
    \/ Done

SpecLookup == InitIngest /\ [][NextLookup]_vars

\* ---- samples of one node stamped minutes and hours apart, with and without
\* a distance reading
ReferenceTs == {Ts(w, "+07:00") : w \in {0, 5, 15, 120}}

ReferenceSamples == {Sample(None, None, None, None), Sample(Some(83), None, Some(492), None)}

NextReference ==
    \/ \E ts \in ReferenceTs, s \in ReferenceSamples :
          Receive("CM-01", ts, s.dist_m, s.rain_bin, s.batt_v, s.meta)
    \/ process_payload("none")
    \/ Done

SpecReference == InitIngest /\ [][NextReference]_vars

\* ---- alert store inputs: three ids, each submitted with rows that differ.
StoreIds == {AlertId(n, "2025-11-03T09:15:00+07:00", "high", DefaultHighHorizon) : n \in Nodes}
               \cup {AlertId("CM-01", "2025-11-03T09:15:00+07:00", "early", DefaultEarlyHorizon)}

NextAlertStore ==
    \/ \E id \in StoreIds, ts \in {"2025-11-03T09:15:00+07:00", "2025-11-03T09:25:00+07:00"},
          n \in Nodes, lv \in {"EARLY", "HIGH"} :
          insert_alert_call(id, ts, n, lv, id[4], IF lv = "EARLY" THEN "rule:early" ELSE "rule:high")
    \/ Return

SpecAlertStore == InitIngest /\ [][NextAlertStore]_vars

\* ---- qc_flags inputs: each argument absent, on both sides of its limits and
\* at the values of the unit tests.
QcInputs ==
    [dist_m : {None, Some(4), Some(5), Some(50), Some(500), Some(501), Some(1000)},
     H_m    : {None, Some(-5), Some(-3), Some(-2), Some(10)},
     dH_10m : {None, Some(-15), Some(-14), Some(0), Some(14), Some(15), Some(20)},
     Q_m3s  : {None, Some(-1), Some(0), Some(1000000), Some(1000001), Some(1500000)},
     q_max  : {DefaultQMax, 2000000}]

InitQc ==
    AlertIdle /\ IngestIdle /\ HqIdle /\ qcIn \in {Some(a) : a \in QcInputs} /\ qcOut = None

NextQc == qc_call

SpecQc == InitQc /\ [][NextQc]_vars

\* ---- payloads of the ingest paths: not an object, or an object with node_id
\* and ts present or missing and each sensor value missing, a number or a text.
NotAnObject ==
    [object |-> FALSE, node_id |-> None, ts |-> None, dist_m |-> Absent,
     rain_bin |-> Absent, batt_v |-> Absent, meta |-> None]

Payloads ==
    {NotAnObject} \cup
    [object : {TRUE}, node_id : {None, Some("CM-01")}, ts : {None, Some(Ts(10, "+07:00")), Some(Ts(10, "?"))},
     dist_m : {Absent, Num(83), Text}, rain_bin : {Absent, Num(1), Text},
     batt_v : {Absent, Num(492), Text}, meta : {None}]

NextValidate ==
    \/ \E path \in {"http", "mqtt"}, data \in Payloads : deliver(path, data)
    \/ ingest
    \/ on_message
    \/ process_payload("none")
    \/ Done
    \/ Reply

SpecValidate == InitIngest /\ [][NextValidate]_vars

\* ---- validated samples with every combination of optional inputs, and the
\* store failing in one of the three calls process_payload makes.
OptionalSamples ==
    [dist_m : {None, Some(83)}, rain_bin : {None, Some(1)}, batt_v : {None, Some(492)},
     meta : {None, Some(95), MetaNull}]

Faults == {"none", "get_hq", "value_10m_ago", "upsert_telemetry"}

NextFault ==
    \/ \E ts \in {Ts(0, "+07:00"), Ts(10, "+07:00")}, s \in OptionalSamples :
          Receive("CM-01", ts, s.dist_m, s.rain_bin, s.batt_v, s.meta)
    \/ \E fault \in Faults : process_payload(fault)
    \/ Done

SpecFault == InitIngest /\ [][NextFault]_vars

\* ---- compute_h_q inputs: H_eff absent, below, at and above zero (1.0 m is the
\* unit test's head), coefficients around the default, exponents 1, 1.5 and 2.
HqInputs ==
    [H_eff : {None, Some(-5), Some(0), Some(1), Some(17), Some(50), Some(100), Some(200)},
     a     : {500, DefaultA, 2000, 3000},
     b     : {2, DefaultB2, 4}]

InitHq ==
    /\ AlertIdle /\ IngestIdle
    /\ qcIn = None /\ qcOut = None /\ fitIn = None /\ fitOut = None
    /\ hqIn \in {Some(x) : x \in HqInputs} /\ hqOut = None

NextHq == hq_call

SpecHq == InitHq /\ [][NextHq]_vars

\* ---- fit_hq_params inputs: series of (H, Q) pairs, each kept by the mask
\* (with a positive or a zero head) or discarded by one of its three terms.
PairTypes ==
    {[H |-> Fin(10), Q |-> Fin(500)], [H |-> Fin(0), Q |-> Fin(100)],
     [H |-> Fin(10), Q |-> Fin(0)], [H |-> NaN, Q |-> Fin(500)], [H |-> Fin(10), Q |-> PosInf]}

PairSeqs == UNION {[1..n -> PairTypes] : n \in 0..MaxPairs}

FitValues == {FitResult(3000, 4, 2, 90, Fin(5))}

\* What curve_fit yields: parameters, or an exception (also when SciPy is missing).
CurveFits == {None} \cup {Some(f) : f \in FitValues}

InitFit ==
    /\ AlertIdle /\ IngestIdle
    /\ qcIn = None /\ qcOut = None /\ hqIn = None /\ hqOut = None
    /\ \E ps \in PairSeqs :
          fitIn = Some([H_m |-> [i \in DOMAIN ps |-> ps[i].H],
                        Q_m3s |-> [i \in DOMAIN ps |-> ps[i].Q]])
    /\ fitOut = None

NextFit == \E curve \in CurveFits, r2s \in {[H0 \in H0_grid |-> -245]} : fit_call(curve, r2s)

SpecFit == InitFit /\ [][NextFit]_vars

\* ---- inputs of the fallback grid search: series of 5 and more usable pairs
\* with heads of 1, 2 and 3 cm, so that the candidates differ in the points
\* they keep, and every r2 a candidate may be given: negative, or positive
\* with and without ties.
GridPairs == {[H |-> Fin(h), Q |-> Fin(500)] : h \in 1..3}

GridSeries == UNION {[1..n -> GridPairs] : n \in 5..MaxPairs}

R2Values == {-245, 50, 90}

InitGrid ==
    /\ AlertIdle /\ IngestIdle
    /\ qcIn = None /\ qcOut = None /\ hqIn = None /\ hqOut = None
    /\ \E ps \in GridSeries :
          fitIn = Some([H_m |-> [i \in DOMAIN ps |-> ps[i].H],
                        Q_m3s |-> [i \in DOMAIN ps |-> ps[i].Q]])
    /\ fitOut = None

NextGrid == \E curve \in CurveFits, r2s \in [H0_grid -> R2Values] : fit_call(curve, r2s)

SpecGrid == InitGrid /\ [][NextGrid]_vars

\* ---- everything that reads or writes a profile, side by side: samples of both
\* nodes with and without a meta override, the alert evaluation, and the
\* calibration dialog with a series too short to fit and one long enough.
ProfileSamples == {Sample(Some(83), Some(1), Some(492), Some(95)), Sample(Some(60), None, Some(492), None)}

ProfileSeries == {[i \in 1..n |-> [H |-> Fin(10 * i), Q |-> Fin(500 * i)]] : n \in {4, 5}}

NextProfile ==
    \/ \E n \in Nodes, s \in ProfileSamples :
          Receive(n, Ts(10, "+07:00"), s.dist_m, s.rain_bin, s.batt_v, s.meta)
    \/ process_payload("none")
    \/ Done
    \/ \E ts \in AlertTs :
          Invoke("CM-01", ts, [h \in {DefaultEarlyHorizon} |-> [prob_flood |-> 60]], None, Some(0))
    \/ \E t \in ClockReadings : evaluate_and_store(t)
    \/ Return
    \/ \E ps \in ProfileSeries :
          on_import([i \in DOMAIN ps |-> ps[i].H], [i \in DOMAIN ps |-> ps[i].Q])
    \/ \E curve \in CurveFits, r2s \in {[H0 \in H0_grid |-> -245]} : fit_call(curve, r2s)
    \/ on_apply
    \/ dialog_close

SpecProfile == InitIngest /\ [][NextProfile]_vars

\* ---- the running application: both ingest threads receiving samples of
\* CM-01 while the Qt thread runs its timer callbacks.
ThreadSamples == {Sample(Some(83), None, Some(492), None)}

ThreadTs == {Ts(0, "+07:00"), Ts(10, "+07:00")}

PredictProbs == {50, 70}

NextThreads ==
    \/ \E th \in IngestThreads, ts \in ThreadTs, s \in ThreadSamples :
          w_enter(th, "CM-01", ts, s.dist_m, s.rain_bin, s.batt_v, s.meta)
    \/ \E th \in IngestThreads : w_lookup(th)
    \/ \E th \in IngestThreads : w_upsert(th)
    \/ \E name \in Timers : timeout(name)
    \/ tick_return
    \/ \E prob \in PredictProbs : model_tick(prob)
    \/ \E t \in ClockReadings : evaluate_and_store(t)
    \/ model_tick_return

SpecThreads == InitIngest /\ [][NextThreads]_vars

\* ------------------------------------------------------------ claims: alerting
\* What the claims say of an invocation that has run: c its arguments, r what
\* it did, written from the rule texts and not from the operators above.
WindowS == rules.debounce_min * 60

EarlyCondition(c) ==
    /\ rules.early.horizon_h \in DOMAIN c.forecasts
    /\ \/ c.forecasts[rules.early.horizon_h].prob_flood >= rules.early.prob_min
       \/ /\ (IF IsNone(c.dH_10m) THEN 0 ELSE Val(c.dH_10m)) >= rules.early.dh10_min
          /\ (IF IsNone(c.rain_next_hour) THEN 0 ELSE Val(c.rain_next_hour))
                 >= rules.early.rain_next_hour_mmph_min

HighCondition(c) ==
    /\ rules.high.horizon_h \in DOMAIN c.forecasts
    /\ c.forecasts[rules.high.horizon_h].prob_flood >= rules.high.prob_min

\* Debounced on the AlertState the invocation found.
DebouncedAtEntry(key, r) == (r.at - r.last_ts0) < WindowS /\ key \in r.active0

\* C1: two successive emissions of the same rule are at least debounce_min*60
\* seconds apart, and a rule that triggers and has never emitted is emitted, so
\* that of two high-triggered invocations from a fresh AlertState less than a
\* window apart exactly the first emits HIGH.
C1_DebounceGap ==
    ~IsNone(ret) =>
        LET r == Val(ret) c == Val(call)
        IN  /\ \A k \in r.emitted :
                  ~IsNone(r.lastEmit0[k]) => r.at - Val(r.lastEmit0[k]) >= WindowS
            /\ (HighCondition(c) /\ IsNone(r.lastEmit0["high"])) => "high" \in r.emitted

\* C1 witness: HIGH is emitted again, a full non-empty window after its last emission.
C1_Witness ==
    /\ ~IsNone(ret)
    /\ WindowS > 0
    /\ "high" \in Val(ret).emitted
    /\ ~IsNone(Val(ret).lastEmit0["high"])

\* C2: EARLY is emitted exactly when the early rule is not debounced and the
\* forecast at early.horizon_h exists and (prob_flood >= prob_min or (dH_10m >=
\* dh10_min and rain_next_hour >= rain_min)), an absent value counting as 0.
C2_EarlyIff ==
    ~IsNone(ret) =>
        LET r == Val(ret) c == Val(call)
        IN  ("early" \in r.emitted) <=> (~DebouncedAtEntry("early", r) /\ EarlyCondition(c))

\* C2 witness: EARLY emitted on the secondary trigger alone (prob_flood below prob_min).
C2_Witness ==
    /\ ~IsNone(ret)
    /\ "early" \in Val(ret).emitted
    /\ Val(call).forecasts[rules.early.horizon_h].prob_flood < rules.early.prob_min

\* C3 (as claimed): HIGH is emitted exactly when the high rule is not debounced
\* and the forecast at high.horizon_h has prob_flood >= prob_min, whatever
\* dH_10m and rain_next_hour are.
C3_HighIff ==
    ~IsNone(ret) =>
        LET r == Val(ret) c == Val(call)
        IN  ("high" \in r.emitted) <=> (~DebouncedAtEntry("high", r) /\ HighCondition(c))

\* C17 (as claimed): the two tracks are independent.  Whether a triggered rule
\* is emitted depends on that rule's own history alone -- it is emitted exactly
\* when it has never emitted or its own last emission is a full window back --
\* so it is the same whatever the other rule does in this invocation or did in
\* earlier ones.
C17_OwnTrack(k, r) ==
    (k \in r.emitted) <=> (IsNone(r.lastEmit0[k]) \/ r.at - Val(r.lastEmit0[k]) >= WindowS)

C17_Independent ==
    ~IsNone(ret) =>
        LET r == Val(ret) c == Val(call)
        IN  /\ HighCondition(c) => C17_OwnTrack("high", r)
            /\ EarlyCondition(c) => C17_OwnTrack("early", r)

\* C18: a triggered rule is suppressed exactly when its own active flag is set
\* and less than debounce_min*60 seconds have passed since last_ts as the rule
\* finds it (for the high rule: after an EARLY emission of the same invocation
\* has set it to the current time).  Hence a triggered rule that has never
\* emitted is emitted, also right after the other rule emitted, and a rule's
\* flag is set exactly when it has emitted before.
C18_LastTsSeen(k, r) == IF k = "high" /\ "early" \in r.emitted THEN r.at ELSE r.last_ts0

C18_Triggered(k, c) == IF k = "early" THEN EarlyCondition(c) ELSE HighCondition(c)

C18_Suppression ==
    ~IsNone(ret) =>
        LET r == Val(ret) c == Val(call)
        IN  \A k \in {"early", "high"} :
                /\ (k \in r.active0) <=> ~IsNone(r.lastEmit0[k])
                /\ C18_Triggered(k, c) =>
                       /\ (k \notin r.emitted) <=>
                              (k \in r.active0 /\ r.at - C18_LastTsSeen(k, r) < WindowS)
                       /\ IsNone(r.lastEmit0[k]) => k \in r.emitted

\* Both rules emit in one invocation on a fresh AlertState, with a window that
\* is not empty.
C18_Witness ==
    /\ ~IsNone(ret)
    /\ WindowS > 0
    /\ Val(ret).active0 = {} /\ Val(ret).last_ts0 = 0
    /\ Val(ret).emitted = {"early", "high"}

\* C19: every emission submits an alert whose id is node_id:ts:rule:horizon_h,
\* with level EARLY or HIGH and reason rule:early or rule:high, sets the rule's
\* active flag and sets last_ts to the time of the invocation; an invocation in
\* which no rule is both triggered and not debounced changes neither the
\* AlertState nor the alert store.
C19_Level(k) == IF k = "early" THEN "EARLY" ELSE "HIGH"

C19_Reason(k) == IF k = "early" THEN "rule:early" ELSE "rule:high"

C19_Emission ==
    ~IsNone(ret) =>
        LET r == Val(ret) c == Val(call)
        IN  /\ \A k \in r.emitted :
                  /\ <<c.node_id, c.ts, k, rules[k].horizon_h>> \in submitted
                  /\ \E a \in alerts :
                        /\ a.alert_id = <<c.node_id, c.ts, k, rules[k].horizon_h>>
                        /\ a.node_id = c.node_id /\ a.ts = c.ts
                        /\ a.horizon_h = rules[k].horizon_h
                        /\ a.level = C19_Level(k) /\ a.reason = C19_Reason(k)
                  /\ k \in active_levels
                  /\ last_ts = r.at
            /\ (\A k \in {"early", "high"} :
                    ~(C18_Triggered(k, c) /\ ~DebouncedAtEntry(k, r))) =>
                  /\ r.emitted = {}
                  /\ last_ts = r.last_ts0 /\ active_levels = r.active0
                  /\ alerts = r.alerts0

\* An invocation has emitted EARLY and HIGH for a node that had no alert yet.
C19_Witness ==
    /\ ~IsNone(ret)
    /\ Val(ret).emitted = {"early", "high"}
    /\ \A a \in Val(ret).alerts0 : a.node_id # Val(call).node_id
    /\ Cardinality(alerts) = Cardinality(Val(ret).alerts0) + 2

\* ------------------------------------------------------------ claims: ingest
\* The node's profile as the store holds it.
StoredProfile(node_id) ==
    IF \E p \in hq_profile : p.node_id = node_id
    THEN CHOOSE p \in hq_profile : p.node_id = node_id
    ELSE [a |-> DefaultA, b |-> DefaultB2, H0_m |-> DefaultH0,
          sensor_height_above_crest_m |-> DefaultSensorHeight]

\* C4: with H_m present, dH_10m is H_m minus the reference record's H_m when the
\* lookup returned a record whose H_m is present, and is absent (never 0.0 by
\* default) otherwise; dQ_10m likewise with Q_m3s; and a stored record of the
\* node stamped exactly ts - 10 minutes is the reference.
C4_Delta ==
    ~IsNone(rec) =>
        LET r == Val(rec).rec  prev == Val(rec).prev  q == Val(req)
            exact == {x \in Val(rec).telemetry0 :
                         /\ x.node_id = q.node_id
                         /\ x.ts.wall = q.ts.wall - 10
                         /\ x.ts.suffix = q.ts.suffix}
        IN  /\ IF ~IsNone(r.H_m) /\ ~IsNone(prev) /\ ~IsNone(Val(prev).H_m)
               THEN r.dH_10m = Some(Val(r.H_m) - Val(Val(prev).H_m))
               ELSE r.dH_10m = None
            /\ IF ~IsNone(r.Q_m3s) /\ ~IsNone(prev) /\ ~IsNone(Val(prev).Q_m3s)
               THEN r.dQ_10m = Some(Val(r.Q_m3s) - Val(Val(prev).Q_m3s))
               ELSE r.dQ_10m = None
            /\ \A x \in exact : prev = Some([H_m |-> x.H_m, Q_m3s |-> x.Q_m3s])

\* C4 witness: a sample whose reference is the record stamped exactly ten
\* minutes before it, with a non-zero dH_10m.
C4_Witness ==
    /\ ~IsNone(rec)
    /\ \E x \in Val(rec).telemetry0 :
          /\ x.node_id = Val(req).node_id
          /\ x.ts.wall = Val(req).ts.wall - 10
          /\ ~IsNone(x.H_m)
    /\ ~IsNone(Val(rec).rec.dH_10m)
    /\ Val(Val(rec).rec.dH_10m) # 0

\* C5: a sample without dist_m yields a record whose H_m, H_eff, Q_m3s, dH_10m
\* and dQ_10m are all absent and whose flags are empty, whatever the profile
\* and the stored records.
C5_NoDist ==
    (~IsNone(rec) /\ IsNone(Val(req).dist_m)) =>
        LET r == Val(rec).rec
        IN  /\ r.H_m = None /\ r.H_eff = None /\ r.Q_m3s = None
            /\ r.dH_10m = None /\ r.dQ_10m = None
            /\ r.flags = << >>

\* C5 witness: a sample without dist_m processed while the lookup found a
\* reference record with H_m present, on a node with a calibrated profile.
C5_Witness ==
    /\ ~IsNone(rec)
    /\ IsNone(Val(req).dist_m)
    /\ ~IsNone(Val(rec).prev)
    /\ ~IsNone(Val(Val(rec).prev).H_m)
    /\ \E p \in hq_profile : p.node_id = Val(req).node_id

\* C6: with dist_m present, H_m = sensor_height - dist_m with the sensor height
\* of meta when meta carries it and of the stored profile otherwise, H_eff =
\* max(0, H_m - H0_m), Q_m3s = discharge(H_eff, a, b); H_eff >= 0 in every record.
C6_Derived ==
    ~IsNone(rec) =>
        LET r == Val(rec).rec  q == Val(req)
            p == StoredProfile(q.node_id)
            sh == IF IsNone(q.meta) THEN p.sensor_height_above_crest_m ELSE Val(q.meta)
        IN  /\ ~IsNone(q.dist_m) =>
                  /\ r.H_m = Some(sh - Val(q.dist_m))
                  /\ r.H_eff = Some(IF sh - Val(q.dist_m) - p.H0_m > 0
                                    THEN sh - Val(q.dist_m) - p.H0_m ELSE 0)
                  /\ r.Q_m3s = compute_h_q(r.H_eff, p.a, p.b)
            /\ ~IsNone(r.H_eff) => Val(r.H_eff) >= 0
            /\ \A x \in telemetry : ~IsNone(x.H_eff) => Val(x.H_eff) >= 0

\* C6 witness: meta overrides the stored sensor height of a calibrated node and
\* the head is above the datum.
C6_Witness ==
    /\ ~IsNone(rec)
    /\ ~IsNone(Val(req).dist_m) /\ ~IsNone(Val(req).meta)
    /\ Val(Val(req).meta) # StoredProfile(Val(req).node_id).sensor_height_above_crest_m
    /\ StoredProfile(Val(req).node_id).H0_m > 0
    /\ Val(Val(rec).rec.H_eff) > 0

\* C7 (as claimed): for a sample whose ts parses, the lookup returns the H_m and
\* Q_m3s of the chronologically latest stored record of the same node at or
\* before ts - 10 minutes, and nothing when there is none, whatever offsets and
\* precisions the stored stamps carry.
C7_MostRecentAtOrBefore ==
    (~IsNone(rec) /\ Parses(Val(req).ts)) =>
        LET q == Val(req)  prev == Val(rec).prev
            cand == {x \in Val(rec).telemetry0 :
                        /\ x.node_id = q.node_id
                        /\ Parses(x.ts)
                        /\ Instant(x.ts) <= Instant(q.ts) - 10}
        IN  IF cand = {} THEN prev = None
            ELSE \E x \in cand :
                    /\ \A y \in cand : Instant(y.ts) <= Instant(x.ts)
                    /\ prev = Some([H_m |-> x.H_m, Q_m3s |-> x.Q_m3s])

\* C8: the telemetry store holds at most one record per (node_id, ts); after an
\* upsert the record under its key is the one just written, field for field,
\* and the records under every other key are as they were.
C8_TelemetryKey ==
    /\ \A x, y \in telemetry : (x.node_id = y.node_id /\ x.ts = y.ts) => x = y
    /\ ~IsNone(rec) =>
          LET r == Val(rec).rec
          IN  /\ \A x \in telemetry :
                    (x.node_id = r.node_id /\ x.ts = r.ts) =>
                        /\ x.dist_m = r.dist_m /\ x.H_m = r.H_m /\ x.H_eff = r.H_eff
                        /\ x.Q_m3s = r.Q_m3s /\ x.dH_10m = r.dH_10m /\ x.dQ_10m = r.dQ_10m
                        /\ x.rain_bin = r.rain_bin /\ x.batt_v = r.batt_v /\ x.flags = r.flags
              /\ \E x \in telemetry : x.node_id = r.node_id /\ x.ts = r.ts
              /\ {x \in telemetry : ~(x.node_id = r.node_id /\ x.ts = r.ts)}
                   = {x \in Val(rec).telemetry0 : ~(x.node_id = r.node_id /\ x.ts = r.ts)}

\* C8 witness: a repeat timestamp of a node overwrote a record that differed,
\* while the other node holds a record under the same ts.
C8_Witness ==
    /\ ~IsNone(rec)
    /\ \E x \in Val(rec).telemetry0 :
          /\ x.node_id = Val(rec).rec.node_id /\ x.ts = Val(rec).rec.ts
          /\ x.dist_m # Val(rec).rec.dist_m /\ x.batt_v # Val(rec).rec.batt_v
    /\ \E y \in telemetry : y.node_id # Val(rec).rec.node_id /\ y.ts = Val(rec).rec.ts

\* ------------------------------------------------------------ claims: alert store
\* C9: the alert store holds exactly one row per distinct alert_id submitted,
\* and a submission under a stored alert_id leaves every stored row as it was.
C9_InsertIfAbsent ==
    /\ \A x, y \in alerts : x.alert_id = y.alert_id => x = y
    /\ {x.alert_id : x \in alerts} = submitted
    /\ Cardinality(alerts) = Cardinality(submitted)
    /\ (~IsNone(ret) /\ "row" \in DOMAIN Val(ret)) =>
          LET r == Val(ret)
          IN  /\ r.alerts0 \subseteq alerts
              /\ (\E x \in r.alerts0 : x.alert_id = r.row.alert_id) => alerts = r.alerts0
              /\ (\A x \in r.alerts0 : x.alert_id # r.row.alert_id) =>
                     alerts = r.alerts0 \cup {r.row}

\* C9 witness: an alert_id already stored was submitted again with another row.
C9_Witness ==
    /\ ~IsNone(ret) /\ "row" \in DOMAIN Val(ret)
    /\ \E x \in Val(ret).alerts0 :
          x.alert_id = Val(ret).row.alert_id /\ x # Val(ret).row
    /\ Cardinality(alerts) >= 2

\* ------------------------------------------------------------ claims: quality control
FlagOrder == <<"OUT_OF_RANGE_DIST", "NEG_H", "SPIKES_H", "OUT_OF_RANGE_Q">>

\* The condition of flag f on the arguments at hand, in centimetres and
\* thousandths of m3/s: [0.05, 5.0] m, -0.02 m, 0.15 m, q_max.
C10_Holds(f) ==
    LET a == Val(qcIn)
    IN  CASE f = "OUT_OF_RANGE_DIST" ->
                a.dist_m # None /\ (Val(a.dist_m) < 5 \/ Val(a.dist_m) > 500)
          [] f = "NEG_H" -> a.H_m # None /\ Val(a.H_m) < -2
          [] f = "SPIKES_H" ->
                a.dH_10m # None /\ (Val(a.dH_10m) >= 15 \/ Val(a.dH_10m) <= -15)
          [] f = "OUT_OF_RANGE_Q" ->
                a.Q_m3s # None /\ (Val(a.Q_m3s) < 0 \/ Val(a.Q_m3s) > a.q_max)

\* C10: each of the four flags is present exactly when its own condition holds
\* on a present value, an absent value raises none, and the flags come in the
\* fixed order.
C10_QcFlags ==
    ~IsNone(qcOut) => Val(qcOut) = SelectSeq(FlagOrder, C10_Holds)

\* C10 witness: the unit test's call, dist 0.5, H 0.1, dH 0.2, Q 1500, yields
\* exactly SPIKES_H then OUT_OF_RANGE_Q.
C10_Witness ==
    /\ qcIn = Some([dist_m |-> Some(50), H_m |-> Some(10), dH_10m |-> Some(20),
                    Q_m3s |-> Some(1500000), q_max |-> DefaultQMax])
    /\ qcOut = Some(<<"SPIKES_H", "OUT_OF_RANGE_Q">>)

\* ------------------------------------------------------------ claims: H-Q model
\* C11: compute_h_q is absent for an absent H_eff, exactly 0.0 for every
\* H_eff <= 0 whatever a and b, and a * H_eff^b for H_eff > 0 (here: the
\* thousandths of (H_eff/100)^(b/2) rounded down, times a, in thousandths).
\* p is the largest integer with (p/1000)^2 <= (H_cm/100)^b2.
C11_Power(H_cm, b2, p) ==
    IF b2 >= 3
    THEN /\ p * p * IntPow(10, 2 * b2 - 6) <= IntPow(H_cm, b2)
         /\ IntPow(H_cm, b2) < (p + 1) * (p + 1) * IntPow(10, 2 * b2 - 6)
    ELSE /\ p * p <= IntPow(H_cm, b2) * IntPow(10, 6 - 2 * b2)
         /\ IntPow(H_cm, b2) * IntPow(10, 6 - 2 * b2) < (p + 1) * (p + 1)

C11_ComputeHq ==
    ~IsNone(hqOut) =>
        LET x == Val(hqIn)
            q == Val(hqOut)
        IN  /\ IsNone(x.H_eff) => IsNone(q)
            /\ (~IsNone(x.H_eff) /\ Val(x.H_eff) <= 0) => q = Some(0)
            /\ (~IsNone(x.H_eff) /\ Val(x.H_eff) > 0) =>
                   /\ ~IsNone(q)
                   /\ \E p \in 0..Max(1000, (Val(x.H_eff) * Val(x.H_eff)) \div 10) :
                          /\ C11_Power(Val(x.H_eff), x.b, p)
                          /\ Val(q) = (x.a * p) \div 1000

\* compute_h_q(0.0, 2.0, 2.0) has returned 0.0.
C11_Witness ==
    /\ ~IsNone(hqOut)
    /\ Val(hqIn) = [H_eff |-> Some(0), a |-> 2000, b |-> 4]
    /\ Val(hqOut) = Some(0)

\* C12: when fewer than 5 pairs of equal-length H and Q are left after
\* discarding the non-finite pairs and the pairs with Q <= 0, fit_hq_params
\* returns exactly a=1.0, b=1.5, H0_m=0.0, r2=0.0, rmse=+infinity and has
\* tried neither curve_fit nor the grid search.
C12_Kept(x) ==
    Cardinality({i \in 1..Len(x.H_m) :
                    x.H_m[i].finite /\ x.Q_m3s[i].finite /\ ~(x.Q_m3s[i].v <= 0)})

C12_Sentinel ==
    (~IsNone(fitOut) /\ C12_Kept(Val(fitIn)) < 5) =>
        /\ Val(fitOut).fit = [a |-> 1000, b |-> 3, H0_m |-> 0, r2 |-> 0, rmse |-> PosInf]
        /\ Val(fitOut).tried = {}

\* A series of 6 pairs, 4 of them usable, has been answered.
C12_Witness ==
    /\ ~IsNone(fitOut)
    /\ Len(Val(fitIn).H_m) = 6
    /\ C12_Kept(Val(fitIn)) = 4
    /\ \E i \in 1..6 : ~Val(fitIn).H_m[i].finite
    /\ \E i \in 1..6 : Val(fitIn).Q_m3s[i] = Fin(0)
    /\ Val(fitOut).tried = {}

\* ------------------------------------------------------------ claims: ingest paths
\* C13: a payload that is not an object, that lacks node_id or ts, or whose
\* dist_m, rain_bin or batt_v is not coercible to a number is rejected by the
\* HTTP handler and by the MQTT handler alike: while it is in a handler's
\* hands process_payload is not invoked and the telemetry and devices tables
\* do not change.
C13_Invalid(data) ==
    \/ ~data.object
    \/ data.node_id = None
    \/ data.ts = None
    \/ \E f \in {"dist_m", "rain_bin", "batt_v"} : data[f] = Text

C13_Rejected ==
    [][(~IsNone(inbox) /\ C13_Invalid(Val(inbox).data)) =>
          /\ req' = None /\ rec' = None /\ ncalls' = ncalls
          /\ telemetry' = telemetry /\ devices' = devices
          /\ (inbox' = None \/ Val(inbox').status = "rejected")]_vars

\* The MQTT handler has rejected a payload with a text for rain_bin and
\* everything else in order, with a row in the telemetry table.
C13_Witness ==
    /\ ~IsNone(inbox) /\ Val(inbox).status = "rejected" /\ Val(inbox).path = "mqtt"
    /\ Val(inbox).data.object /\ ~IsNone(Val(inbox).data.node_id) /\ ~IsNone(Val(inbox).data.ts)
    /\ Val(inbox).data.dist_m = Num(83) /\ Val(inbox).data.rain_bin = Text
    /\ telemetry # {} /\ devices # {}

\* C14: when the store fails during process_payload -- in the profile read,
\* in the historical lookup or in the upsert -- process_payload does not raise
\* and still returns the record derived in memory, and a failing upsert has
\* been attempted exactly once and stored nothing.
C14_StoreFailure ==
    (~IsNone(rec) /\ Val(rec).fault # "none" /\ Val(req).meta # MetaNull) =>
        /\ ~Val(rec).raised
        /\ ~IsNone(Val(rec).rec)
        /\ Val(rec).fault = "upsert_telemetry" =>
               (Val(rec).upserts = 1 /\ telemetry = Val(rec).telemetry0)

\* C15: a validated sample with any combination of absent optional inputs
\* (dist_m, rain_bin, batt_v, no meta, meta without the sensor height or with
\* a null one) is processed without raising when the store works, and each
\* absent input is absent in the record: no dist_m gives no H_m, H_eff, Q_m3s
\* and no deltas, no rain_bin gives no rain_bin, no batt_v gives no batt_v.
C15_AbsentInputs ==
    (~IsNone(rec) /\ Val(rec).fault = "none") =>
        /\ ~Val(rec).raised
        /\ ~IsNone(Val(rec).rec)
        /\ LET q == Val(req)
               r == Val(rec).rec
           IN  /\ IsNone(q.dist_m) =>
                      /\ IsNone(r.dist_m) /\ IsNone(r.H_m) /\ IsNone(r.H_eff) /\ IsNone(r.Q_m3s)
                      /\ IsNone(r.dH_10m) /\ IsNone(r.dQ_10m)
               /\ IsNone(q.rain_bin) => IsNone(r.rain_bin)
               /\ IsNone(q.batt_v) => IsNone(r.batt_v)

\* C16: every node's profile reads as a=1.0, b=1.5, H0_m=0.0, sensor height
\* 1.0 at the start; no step of fit_hq_params, process_payload (with or without
\* a meta override) or evaluate_and_store changes a stored profile; and a step
\* that changes one is the application of a fit, which changes only a, b and
\* H0_m of node CM-01, keeping its sensor height and every other profile.
C16_Defaults ==
    [a |-> 1000, b |-> 3, H0_m |-> 0, sensor_height_above_crest_m |-> 100]

C16_Read(tbl, n) ==
    IF \E p \in tbl : p.node_id = n
    THEN LET p == CHOOSE x \in tbl : x.node_id = n
         IN  [a |-> p.a, b |-> p.b, H0_m |-> p.H0_m,
              sensor_height_above_crest_m |-> p.sensor_height_above_crest_m]
    ELSE C16_Defaults

C16_Step ==
    /\ (req' # req \/ rec' # rec \/ call' # call \/ ret' # ret
           \/ fitIn' # fitIn \/ fitOut' # fitOut) => (hq_profile' = hq_profile)
    /\ \A n \in Nodes :
          (C16_Read(hq_profile', n) # C16_Read(hq_profile, n)) =>
              /\ n = "CM-01"
              /\ ~IsNone(fitOut)
              /\ C16_Read(hq_profile', n) =
                     [a |-> Val(fitOut).fit.a, b |-> Val(fitOut).fit.b,
                      H0_m |-> Val(fitOut).fit.H0_m,
                      sensor_height_above_crest_m |->
                          C16_Read(hq_profile, n).sensor_height_above_crest_m]

C16_ProfileFrame ==
    (\A n \in Nodes : C16_Read(hq_profile, n) = C16_Defaults) /\ [][C16_Step]_vars

\* A fit has been applied to CM-01, and afterwards a sample of CM-01 whose meta
\* overrides the sensor height was processed and an alert was emitted; CM-02
\* has a record too and still reads the defaults.
C16_Witness ==
    /\ C16_Read(hq_profile, "CM-01") =
           [a |-> 3000, b |-> 4, H0_m |-> 2, sensor_height_above_crest_m |-> 100]
    /\ C16_Read(hq_profile, "CM-02") = C16_Defaults
    /\ ~IsNone(rec) /\ Val(req).node_id = "CM-01" /\ Val(req).meta = Some(95)
    /\ Val(rec).hq.a = 3000
    /\ \E x \in telemetry : x.node_id = "CM-02"
    /\ alerts # {}

\* ------------------------------------------------------------ claims: ordering
\* C20: while the samples of a node have been processed one at a time in
\* non-decreasing timestamp order, every stored record of the node has dH_10m
\* equal to its H_m minus the H_m of the latest stored record of the node
\* stamped at or before ts - 10 minutes, and absent when there is no such
\* record or one of the two H_m is absent.  (A node whose samples came out of
\* order can hold a record whose dH_10m differs: C20_OutOfOrderDiffers.)
C20_Refs(x) ==
    {y \in telemetry : y.node_id = x.node_id /\ Instant(y.ts) <= Instant(x.ts) - 10}

C20_Expected(x) ==
    IF C20_Refs(x) = {} \/ IsNone(x.H_m) THEN None
    ELSE LET y == CHOOSE z \in C20_Refs(x) : \A w \in C20_Refs(x) : Instant(w.ts) <= Instant(z.ts)
         IN  IF IsNone(y.H_m) THEN None ELSE Some(Val(x.H_m) - Val(y.H_m))

C20_InOrderDelta ==
    \A x \in telemetry : x.node_id \notin disordered => x.dH_10m = C20_Expected(x)

\* A node processed in order holds a record with a reference and a non-zero delta.
C20_Witness ==
    \E x \in telemetry :
        /\ x.node_id \notin disordered
        /\ C20_Refs(x) # {}
        /\ ~IsNone(x.dH_10m) /\ Val(x.dH_10m) # 0

\* A node processed out of order holds a record whose dH_10m is not that value.
C20_OutOfOrderDiffers ==
    \E x \in telemetry : x.node_id \in disordered /\ x.dH_10m # C20_Expected(x)

\* ------------------------------------------------------------ claims: threads
\* C21 (as claimed): samples of one node arriving on the MQTT thread and on the
\* HTTP thread are serialized before process_payload: never is one thread
\* between its lookup and its upsert while the other thread is inside
\* process_payload for the same node.
C21_Serialized ==
    \A a \in IngestThreads, b \in IngestThreads :
        (a # b /\ workers[a].pc = "looked_up" /\ workers[b].pc # "idle") =>
            Val(workers[a].q).node_id # Val(workers[b].q).node_id

\* What a step does to AlertState, and who takes it: a step that changes
\* last_ts or active_levels is a step of the invocation _model_tick made, and
\* moves no ingest thread; a step of an ingest thread leaves AlertState alone.
C22_Step ==
    /\ (last_ts' # last_ts \/ active_levels' # active_levels) =>
           (slot = Some("model") /\ ~IsNone(call) /\ IsNone(ret) /\ workers' = workers)
    /\ (workers' # workers) => UNCHANGED <<last_ts, active_levels, call, ret>>

\* The invocation in progress, if any, is the one the running callback made.
C22_OneInvocation == ~IsNone(call) => slot = Some("model")

\* C22: in the running application AlertState has a single writer at a time: an
\* evaluate_and_store invocation runs from its debounce check to its return
\* inside one _model_tick callback, the event loop calls no other callback
\* until it has returned, and the ingest threads never read or write AlertState.
C22_SingleWriter == []C22_OneInvocation /\ [][C22_Step]_vars

\* An invocation has emitted while an ingest thread is inside process_payload.
C22_Witness ==
    /\ slot = Some("model") /\ ~IsNone(ret) /\ Val(ret).emitted # {}
    /\ \E th \in IngestThreads : workers[th].pc = "looked_up"

\* ------------------------------------------------------------ claims: alert state
\* Rule k has an alert row of this node in the table tbl: every emission for a
\* node leaves one, so without one the rule has emitted for other nodes only.
C23_EmittedFor(tbl, node_id, k) ==
    \E a \in tbl : a.node_id = node_id /\ a.level = C19_Level(k)

\* C23: one AlertState serves every node: when rule k triggers for a node for
\* which it has never emitted, less than debounce_min*60 seconds after its
\* emission for another node, the flag of k is already set, k is not emitted
\* and the node gets no alert of k.
C23_SharedAcrossNodes ==
    ~IsNone(ret) =>
        LET r == Val(ret) c == Val(call)
        IN  \A k \in RuleNames :
                (/\ C18_Triggered(k, c)
                 /\ ~IsNone(r.lastEmit0[k])
                 /\ r.at - Val(r.lastEmit0[k]) < WindowS
                 /\ ~C23_EmittedFor(r.alerts0, c.node_id, k))
                => (/\ k \in r.active0
                    /\ k \notin r.emitted
                    /\ ~C23_EmittedFor(alerts, c.node_id, k))

\* HIGH triggers for CM-02 within the window HIGH opened for CM-01, and is suppressed.
C23_Witness ==
    /\ ~IsNone(ret) /\ ~IsNone(call)
    /\ Val(call).node_id = "CM-02"
    /\ HighCondition(Val(call))
    /\ ~IsNone(Val(ret).lastEmit0["high"])
    /\ Val(ret).at - Val(Val(ret).lastEmit0["high"]) < WindowS
    /\ C23_EmittedFor(Val(ret).alerts0, "CM-01", "high")
    /\ ~C23_EmittedFor(alerts, "CM-02", "high")
    /\ "high" \notin Val(ret).emitted

\* ------------------------------------------------------------ claims: timestamps at the door
\* C24 (as claimed): a payload whose ts is no well-formed ISO-8601 timestamp is
\* rejected by validation: process_payload is never entered with such a ts, and
\* no telemetry row and no devices row carries one.
C24_MalformedTsRejected ==
    /\ ~IsNone(req) => Parses(Val(req).ts)
    /\ \A x \in telemetry : Parses(x.ts)
    /\ \A d \in devices : Parses(d.last_seen)

\* ------------------------------------------------------------ claims: fallback fit
\* The candidates with at least 5 points of H_eff > 0.
C25_Candidates(x) ==
    {H0 \in H0_grid :
        Cardinality({i \in 1..Len(x.H_m) :
                        x.H_m[i].finite /\ x.Q_m3s[i].finite /\ x.Q_m3s[i].v > 0
                        /\ x.H_m[i].v - H0 > 0}) >= 5}

\* C25 (as claimed): on the fallback path the result is the candidate H0 with
\* the highest r2 among the candidates with at least 5 points of H_eff > 0,
\* the lowest such H0 on a tie, and the sentinel is returned only when there
\* is no such candidate.
C25_BestCandidate ==
    (~IsNone(fitOut) /\ "grid" \in Val(fitOut).tried) =>
        LET c == C25_Candidates(Val(fitIn))
            r2s == Val(fitOut).r2s
            fit == Val(fitOut).fit
        IN  IF c = {} THEN fit = SentinelFit
            ELSE /\ fit # SentinelFit
                 /\ fit.H0_m \in c
                 /\ fit.r2 = r2s[fit.H0_m]
                 /\ \A H0 \in c : r2s[H0] <= fit.r2
                 /\ \A H0 \in c : r2s[H0] = fit.r2 => fit.H0_m <= H0

\* ------------------------------------------------------------ claims: alerting for ever
\* C26 (as claimed): with the high trigger holding at every invocation and
\* invocations going on while the clock advances, HIGH is emitted again and
\* again, whatever the early rule does.
C26_HighInfinitelyOften == []<>(~IsNone(ret) /\ "high" \in Val(ret).emitted)

\* ------------------------------------------------------------ claims: AlertState over time
\* The time of the most recent emission of either rule, 0 before any.
C27_LatestEmission ==
    IF \A k \in RuleNames : IsNone(lastEmit[k]) THEN 0
    ELSE Val(lastEmit[CHOOSE k \in RuleNames :
                          /\ ~IsNone(lastEmit[k])
                          /\ \A j \in RuleNames :
                                ~IsNone(lastEmit[j]) => Val(lastEmit[j]) <= Val(lastEmit[k])])

C27_Step == active_levels \subseteq active_levels' /\ last_ts' >= last_ts

\* C27: under a non-decreasing clock a flag of active_levels, once set, stays
\* set whether or not the rule still triggers, and last_ts never decreases and
\* is the time of the most recent emission of either rule (0 before any).
C27_Monotone == [](last_ts = C27_LatestEmission) /\ [][C27_Step]_vars

\* An invocation in which neither rule triggers has run with both flags set,
\* and they are still set.
C27_Witness ==
    /\ ~IsNone(ret) /\ ~IsNone(call)
    /\ ~EarlyCondition(Val(call)) /\ ~HighCondition(Val(call))
    /\ Val(ret).active0 = RuleNames
    /\ active_levels = RuleNames
    /\ last_ts = C27_LatestEmission /\ last_ts > 0 /\ last_ts < now

\* The alert id of rule k in the invocation with arguments c.
C28_Id(c, k) == <<c.node_id, c.ts, k, rules[k].horizon_h>>

\* The rules emitted in the invocation whose alert id was not stored before it.
C28_NewIds(c, r) == {k \in r.emitted : \A a \in r.alerts0 : a.alert_id # C28_Id(c, k)}

\* C28: an emission under an alert id that is already stored adds no row and
\* changes none, yet sets last_ts to now; an invocation adds one row per
\* emitted id that was not stored, so the table holds as many rows as distinct
\* ids were emitted, however many emissions there were.
C28_DuplicateEmission ==
    /\ Cardinality(alerts) = Cardinality(submitted)
    /\ ~IsNone(ret) =>
          LET r == Val(ret) c == Val(call)
          IN  /\ r.alerts0 \subseteq alerts
              /\ Cardinality(alerts) = Cardinality(r.alerts0) + Cardinality(C28_NewIds(c, r))
              /\ \A k \in r.emitted :
                    /\ C28_Id(c, k) \in submitted
                    /\ (k \notin C28_NewIds(c, r)) =>
                          /\ {a \in alerts : a.alert_id = C28_Id(c, k)}
                                = {a \in r.alerts0 : a.alert_id = C28_Id(c, k)}
                          /\ last_ts = r.at

\* HIGH has re-fired for the same node and timestamp after the window: nothing
\* was added to the table, and last_ts moved to now.
C28_Witness ==
    /\ ~IsNone(ret) /\ ~IsNone(call)
    /\ Val(ret).emitted = {"high"}
    /\ C28_NewIds(Val(call), Val(ret)) = {}
    /\ alerts = Val(ret).alerts0
    /\ WindowS > 0
    /\ last_ts = Val(ret).at /\ Val(ret).last_ts0 < last_ts

\* ------------------------------------------------------------ claims: device status
\* C29: after successful upserts every node with telemetry has exactly one
\* devices row and no other node has one; the row says online and carries the
\* ts and batt_v of the node's sample processed last, whatever its timestamp;
\* and since both rows are written in one commit, the devices row always
\* agrees with the telemetry row stored under its last_seen.
C29_DeviceStatus ==
    /\ {x.node_id : x \in telemetry} = {d.node_id : d \in devices}
    /\ \A d, e \in devices : d.node_id = e.node_id => d = e
    /\ \A d \in devices :
          /\ d.status = "online"
          /\ \E x \in telemetry :
                x.node_id = d.node_id /\ x.ts = d.last_seen /\ x.batt_v = d.batt_v
    /\ ~IsNone(rec) =>
          \A d \in devices :
              d.node_id = Val(req).node_id =>
                  d.last_seen = Val(req).ts /\ d.batt_v = Val(req).batt_v

\* A sample without batt_v was processed after a later-stamped sample of the
\* node that had one: the devices row shows the earlier timestamp and no batt_v.
C29_Witness ==
    /\ ~IsNone(rec)
    /\ IsNone(Val(req).batt_v)
    /\ \E x \in telemetry :
          /\ x.node_id = Val(req).node_id
          /\ StrLE(Val(req).ts, x.ts) /\ x.ts # Val(req).ts
          /\ ~IsNone(x.batt_v)
    /\ \E d \in devices :
          d.node_id = Val(req).node_id /\ d.last_seen = Val(req).ts /\ IsNone(d.batt_v)
    /\ Cardinality(devices) = 2

\* ------------------------------------------------------------ claims: the delta reference
\* The node's records at or before ts - 10 minutes, however old, in the store
\* the sample met.
C30_AtOrBefore ==
    {x \in Val(rec).telemetry0 :
        x.node_id = Val(req).node_id /\ Instant(x.ts) <= Instant(Val(req).ts) - 10}

\* C30: the reference of the deltas is the latest of the node's records at
\* or before ts - 10 minutes, with no limit on its age, and no other: when
\* that record has no H_m, dH_10m is absent even if older records have one.
C30_SingleLatestReference ==
    ~IsNone(rec) =>
        LET r == Val(rec).rec  prev == Val(rec).prev
        IN  IF C30_AtOrBefore = {} THEN prev = None /\ r.dH_10m = None
            ELSE LET y == CHOOSE z \in C30_AtOrBefore :
                              \A w \in C30_AtOrBefore : Instant(w.ts) <= Instant(z.ts)
                 IN  /\ prev = Some([H_m |-> y.H_m, Q_m3s |-> y.Q_m3s])
                     /\ IsNone(y.H_m) => r.dH_10m = None
                     /\ (~IsNone(y.H_m) /\ ~IsNone(r.H_m)) =>
                            r.dH_10m = Some(Val(r.H_m) - Val(y.H_m))

\* A sample with H_m met a latest reference 105 minutes old without H_m and an
\* older record with H_m, and got no dH_10m.
C30_Witness ==
    /\ ~IsNone(rec)
    /\ Val(req).ts.wall = 120
    /\ ~IsNone(Val(rec).rec.H_m)
    /\ \E y \in C30_AtOrBefore :
          /\ y.ts.wall = 15 /\ IsNone(y.H_m)
          /\ \A w \in C30_AtOrBefore : Instant(w.ts) <= Instant(y.ts)
    /\ \E w \in C30_AtOrBefore : ~IsNone(w.H_m)
    /\ IsNone(Val(rec).rec.dH_10m)

====
